---------------------------- MODULE Spec2Model ----------------------------
(***************************************************************************)
(* A model of TS-tools: the transition-state validity decision engine      *)
(* (confirm_imag_modes.py), the IRC reconciliation (irc_search.py) and the *)
(* two batch orchestrators (run_ts_searcher_dft.py, dft_validation.py).    *)
(*                                                                         *)
(* Numbers.  The code works on floats; the model works on integers.        *)
(* Distances and displacements are small integers, and `factor' is given   *)
(* in hundredths (105 for 1.05), so that the code's comparison             *)
(*     ts < target * factor                                                *)
(* is  ts * 100 < target * factor  in the model.  Tolerances of the IRC    *)
(* sweep are in hundredths as well (30 for 0.3).                           *)
(***************************************************************************)
EXTENDS Integers, Sequences, FiniteSets, TLC

VARIABLES
    \* ---- one call of a function of the decision engine ----
    call,               \* the function called
    args,               \* its arguments (a record)
    returned,           \* whether the call has returned
    ret,                \* its return value
    final_ts_guesses,   \* the shared final_ts_guesses directory: name -> content
    \* ---- compare_molecules_irc ----
    irc_pc,             \* "loop" | "done"
    irc_idx,            \* index of the next tolerance of the sweep
    evaluated,          \* the tolerances at which the graphs were rebuilt
    graphs,             \* the four edge sets built at each evaluated tolerance
    irc_ret,            \* the return value
    \* ---- the batch orchestrators ----
    orch,               \* position of obtain_transition_states / validate_ts_guesses
    cwd,                \* the process working directory
    cpu_count,          \* multiprocessing.cpu_count()
    wpc,                \* per reaction: position of its worker call
    wret,               \* per reaction: what the worker call returned
    started,            \* per reaction: how many times a worker took it
    completed,          \* the reactions in the order their worker calls returned
    results,            \* list(executor.map(...))
    out,                \* the list the orchestrator returns
    \* ---- optimize_individual_ts ----
    kind,               \* per reaction: the selected factor list
    tried,              \* per reaction: the factors of the attempts made, in order
    last,               \* per reaction: how the last attempt (the last determine_ts) ended
    \* ---- validate_individual_ts ----
    discovery,          \* per reaction: how the file discovery ended
    ts_guess_file,      \* per reaction: the candidate file found (or "None")
    ts_validated,       \* per reaction: the local ts_validated
    calls               \* per reaction: number of determine_ts invocations

engineVars == <<call, args, returned, ret, final_ts_guesses>>
ircVars    == <<irc_pc, irc_idx, evaluated, graphs, irc_ret>>
batchVars  == <<orch, cwd, cpu_count, wpc, wret, started, completed, results, out>>
searchVars == <<kind, tried, last>>
validVars  == <<discovery, ts_guess_file, ts_validated, calls>>
vars == <<engineVars, ircVars, batchVars, searchVars, validVars>>

\* ------------------------------------------------------------------------
\* Bounds of the model
\* ------------------------------------------------------------------------
MaxLen  == 3    \* longest list handed to check_same_sign
MaxDisp == 2    \* displacements range over -MaxDisp..MaxDisp
MaxDist == 2    \* distances range over 1..MaxDist
MaxCpu  == 4    \* cpu_count ranges over 1..MaxCpu
MaxFiles == 2   \* most files in a reaction's guess directory
MaxAtoms == 4   \* atom counts range over 3..MaxAtoms, mode vectors over 0..MaxAtoms rows
MaxCoord == 2   \* atom coordinates range over 0..MaxCoord

\* ------------------------------------------------------------------------
\* The parts of the state a specification does not use stay at these values
\* ------------------------------------------------------------------------
IdleEngine ==
    /\ call = "none"
    /\ args = [none |-> TRUE]
    /\ returned = FALSE
    /\ ret = FALSE
    /\ final_ts_guesses = {}

IdleIrc ==
    /\ irc_pc = "idle"
    /\ irc_idx = 1
    /\ evaluated = <<>>
    /\ graphs = <<>>
    /\ irc_ret = FALSE

IdleBatch ==
    /\ orch = "idle"
    /\ cwd = "home"
    /\ cpu_count = 1
    /\ wpc = <<>>
    /\ wret = <<>>
    /\ started = <<>>
    /\ completed = <<>>
    /\ results = <<>>
    /\ out = <<>>

IdleSearch ==
    /\ kind = <<>>
    /\ tried = <<>>
    /\ last = <<>>

IdleValid ==
    /\ discovery = <<>>
    /\ ts_guess_file = <<>>
    /\ ts_validated = <<>>
    /\ calls = <<>>

\* ========================================================================
\* confirm_imag_modes.py : check_same_sign
\* ========================================================================

\* The body of the for loop from position i on, with the local first_sign.
RECURSIVE check_same_sign_loop(_, _, _)
check_same_sign_loop(mode_list, i, first_sign) ==
    IF i > Len(mode_list) THEN TRUE
    ELSE LET num  == mode_list[i]
             sign == IF num > 0 THEN 1 ELSE -1
         IN  IF first_sign = 0
               THEN check_same_sign_loop(mode_list, i + 1, sign)
               ELSE IF sign # 0 /\ sign # first_sign
                      THEN FALSE
                      ELSE check_same_sign_loop(mode_list, i + 1, first_sign)

check_same_sign(mode_list) == check_same_sign_loop(mode_list, 1, 0)

Displacements == (-MaxDisp)..MaxDisp

ModeLists == UNION {[1..n -> Displacements] : n \in 0..MaxLen}

InitSameSign ==
    /\ call = "check_same_sign"
    /\ args \in {[mode_list |-> l] : l \in ModeLists}
    /\ returned = FALSE
    /\ ret = FALSE
    /\ final_ts_guesses = {}
    /\ IdleIrc /\ IdleBatch /\ IdleSearch /\ IdleValid

CheckSameSign ==
    /\ call = "check_same_sign"
    /\ ~returned
    /\ ret' = check_same_sign(args.mode_list)
    /\ returned' = TRUE
    /\ UNCHANGED <<call, args, final_ts_guesses>>
    /\ UNCHANGED <<ircVars, batchVars, searchVars, validVars>>

SpecSameSign == InitSameSign /\ [][CheckSameSign]_vars

\* The same-sign rule of the specification: no two non-zero entries of the
\* list have opposite signs; zero entries are neutral.
SameSignRule(l) ==
    ~ \E i, j \in 1..Len(l) : l[i] > 0 /\ l[j] < 0

\* C2: for every list of signed displacements, check_same_sign passes iff no
\* two non-zero entries have opposite signs (zeros are sign-neutral, a list of
\* positive and zero values passes, the empty list passes).
C2_SameSignZeroNeutral ==
    (call = "check_same_sign" /\ returned) => (ret = SameSignRule(args.mode_list))


\* ========================================================================
\* confirm_imag_modes.py : check_if_bond_lengths_intermediate
\* ========================================================================

\* Bonds are the edges of the molecular graphs: pairs of atom indices.
Bonds == {<<0, 1>>, <<1, 2>>}

\* Multiplication factors, in hundredths (105 is the default 1.05).
Factors == {100, 105, 200}

DistanceMatrices == [Bonds -> 1..MaxDist]

\* A faulty variant of intermediate_loop: the comparison is turned round.
RECURSIVE intermediate_loop_gt(_, _, _, _)
intermediate_loop_gt(bonds, ts_distances, target_distances, factor) ==
    IF bonds = {} THEN TRUE
    ELSE LET active_bond == CHOOSE b \in bonds : TRUE
         IN  IF ts_distances[active_bond] * 100 > target_distances[active_bond] * factor
               THEN FALSE
               ELSE intermediate_loop_gt(bonds \ {active_bond}, ts_distances,
                                         target_distances, factor)

\* One of the two for loops: False as soon as a bond of `bonds' has a TS
\* distance below target distance * factor.
RECURSIVE intermediate_loop(_, _, _, _)
intermediate_loop(bonds, ts_distances, target_distances, factor) ==
    IF bonds = {} THEN TRUE
    ELSE LET active_bond == CHOOSE b \in bonds : TRUE
         IN  IF ts_distances[active_bond] * 100 < target_distances[active_bond] * factor
               THEN FALSE
               ELSE intermediate_loop(bonds \ {active_bond}, ts_distances,
                                      target_distances, factor)

\* A faulty variant of check_if_bond_lengths_intermediate: <= where the code has <.
RECURSIVE intermediate_loop_le(_, _, _, _)
intermediate_loop_le(bonds, ts_distances, target_distances, factor) ==
    IF bonds = {} THEN TRUE
    ELSE LET active_bond == CHOOSE b \in bonds : TRUE
         IN  IF ts_distances[active_bond] * 100 <= target_distances[active_bond] * factor
               THEN FALSE
               ELSE intermediate_loop_le(bonds \ {active_bond}, ts_distances,
                                         target_distances, factor)

check_if_bond_lengths_intermediate_le(ts_distances, reac_distances, prod_distances, active_bonds_forming, active_bonds_breaking, factor) ==
    /\ intermediate_loop_le(active_bonds_forming, ts_distances, prod_distances, factor)
    /\ intermediate_loop_le(active_bonds_breaking, ts_distances, reac_distances, factor)

check_if_bond_lengths_intermediate(ts_distances, reac_distances, prod_distances, active_bonds_forming, active_bonds_breaking, factor) ==
    IF ~ intermediate_loop(active_bonds_forming, ts_distances, prod_distances, factor)
      THEN FALSE
      ELSE IF ~ intermediate_loop(active_bonds_breaking, ts_distances, reac_distances, factor)
             THEN FALSE
             ELSE TRUE

InitIntermediate ==
    /\ call = "check_if_bond_lengths_intermediate"
    /\ args \in {[ts_distances |-> t, reac_distances |-> r, prod_distances |-> p,
                  active_bonds_forming |-> f, active_bonds_breaking |-> b,
                  factor |-> k] :
                    t \in DistanceMatrices, r \in DistanceMatrices,
                    p \in DistanceMatrices,
                    f \in SUBSET Bonds, b \in SUBSET Bonds, k \in Factors}
    /\ args.active_bonds_forming \cap args.active_bonds_breaking = {}
    /\ returned = FALSE
    /\ ret = FALSE
    /\ final_ts_guesses = {}
    /\ IdleIrc /\ IdleBatch /\ IdleSearch /\ IdleValid

CheckIntermediate ==
    /\ call = "check_if_bond_lengths_intermediate"
    /\ ~returned
    /\ ret' = check_if_bond_lengths_intermediate(
                  args.ts_distances, args.reac_distances, args.prod_distances,
                  args.active_bonds_forming, args.active_bonds_breaking, args.factor)
    /\ returned' = TRUE
    /\ UNCHANGED <<call, args, final_ts_guesses>>
    /\ UNCHANGED <<ircVars, batchVars, searchVars, validVars>>

SpecIntermediate == InitIntermediate /\ [][CheckIntermediate]_vars

\* C10: the intermediacy check passes iff every forming bond has TS distance
\* >= factor x its product distance and every breaking bond has TS distance
\* >= factor x its reactant distance (so one violating bond of either kind
\* fails it, and with no forming and no breaking bond it passes).
C10_IntermediateIff ==
    (call = "check_if_bond_lengths_intermediate" /\ returned) =>
        (ret <=>
            /\ \A b \in args.active_bonds_forming :
                   args.ts_distances[b] * 100 >= args.factor * args.prod_distances[b]
            /\ \A b \in args.active_bonds_breaking :
                   args.ts_distances[b] * 100 >= args.factor * args.reac_distances[b])

\* C10 witness: one forming bond sits exactly on the threshold and passes, the
\* single breaking bond violates it, and the function has returned False.
C10_Witness ==
    /\ call = "check_if_bond_lengths_intermediate" /\ returned
    /\ ret = FALSE
    /\ Cardinality(args.active_bonds_forming) = 1
    /\ Cardinality(args.active_bonds_breaking) = 1
    /\ \A b \in args.active_bonds_forming :
           args.ts_distances[b] * 100 = args.factor * args.prod_distances[b]
    /\ \E b \in args.active_bonds_breaking :
           args.ts_distances[b] * 100 < args.factor * args.reac_distances[b]

\* ========================================================================
\* confirm_imag_modes.py : extract_info_ts_file, move_final_guess_xyz,
\*                         validate_ts_guess
\* ========================================================================

Abs(x) == IF x < 0 THEN -x ELSE x

\* A faulty variant of extract_info_ts_file: the active bonds are filtered with
\* cut_off, not 2 * cut_off.
extract_info_ts_file_one_cut_off(a) ==
    LET all_bonds == a.product_edges \cup a.reactant_edges
        active_bonds == (a.product_edges \ a.reactant_edges)
                            \cup (a.reactant_edges \ a.product_edges)
        kept == {bond \in all_bonds : ~ (Abs(a.delta_mode[bond]) < a.cut_off)}
    IN  [freq |-> a.freq,
         active_bonds_involved_in_mode |->
             [bond \in kept \cap active_bonds |-> a.delta_mode[bond]],
         extra_bonds_involved_in_mode  |->
             [bond \in kept \ active_bonds |-> a.delta_mode[bond]],
         active_bonds_forming  |-> a.product_edges \ a.reactant_edges,
         active_bonds_breaking |-> a.reactant_edges \ a.product_edges,
         reac_distances |-> a.reac_distances,
         prod_distances |-> a.prod_distances,
         ts_distances   |-> a.ts_distances]

\* Lines 244-270 of extract_info_ts_file.  `a' holds what lines 224-242 read
\* and computed: the edges of the reactant and product graphs, the three
\* distance matrices, the delta_mode matrix and the frequency.
extract_info_ts_file(a) ==
    LET all_bonds == a.product_edges \cup a.reactant_edges
        active_bonds_forming  == a.product_edges \ a.reactant_edges
        active_bonds_breaking == a.reactant_edges \ a.product_edges
        active_bonds == active_bonds_forming \cup active_bonds_breaking
        active_keys == {bond \in all_bonds :
                            /\ bond \in active_bonds
                            /\ ~ (Abs(a.delta_mode[bond]) < 2 * a.cut_off)}
        extra_keys  == {bond \in all_bonds :
                            /\ bond \notin active_bonds
                            /\ ~ (Abs(a.delta_mode[bond]) < a.cut_off)}
    IN  [freq |-> a.freq,
         active_bonds_involved_in_mode |-> [bond \in active_keys |-> a.delta_mode[bond]],
         extra_bonds_involved_in_mode  |-> [bond \in extra_keys |-> a.delta_mode[bond]],
         active_bonds_forming  |-> active_bonds_forming,
         active_bonds_breaking |-> active_bonds_breaking,
         reac_distances |-> a.reac_distances,
         prod_distances |-> a.prod_distances,
         ts_distances   |-> a.ts_distances]

\* [mapping[bond] for bond in keys]: the list comprehension over a set.
RECURSIVE values_of(_, _)
values_of(keys, mapping) ==
    IF keys = {} THEN <<>>
    ELSE LET bond == CHOOSE b \in keys : TRUE
         IN  <<mapping[bond]>> \o values_of(keys \ {bond}, mapping)

active_formed_bonds_involved_in_mode(info) ==
    values_of((DOMAIN info.active_bonds_involved_in_mode) \cap info.active_bonds_forming,
              info.active_bonds_involved_in_mode)

active_broken_bonds_involved_in_mode(info) ==
    values_of((DOMAIN info.active_bonds_involved_in_mode) \cap info.active_bonds_breaking,
              info.active_bonds_involved_in_mode)

\* The verdict of validate_ts_guess (lines 42-66, 69, 71).
validate_ts_guess(a) ==
    LET info == extract_info_ts_file(a)
        bond_lengths_intermediate ==
            check_if_bond_lengths_intermediate(
                info.ts_distances, info.reac_distances, info.prod_distances,
                info.active_bonds_forming, info.active_bonds_breaking, a.factor)
    IN  IF /\ Cardinality(DOMAIN info.extra_bonds_involved_in_mode) = 0
           /\ Cardinality(DOMAIN info.active_bonds_involved_in_mode) # 0
           /\ check_same_sign(active_formed_bonds_involved_in_mode(info))
           /\ check_same_sign(active_broken_bonds_involved_in_mode(info))
           /\ bond_lengths_intermediate
           /\ info.freq < - a.freq_cut_off
          THEN TRUE
          ELSE FALSE

\* A directory is a set of files [name, content] with distinct names.
copy(dir, name, content) ==
    {f \in dir : f.name # name} \cup {[name |-> name, content |-> content]}

rename(dir, src, dst) ==
    LET f == CHOOSE g \in dir : g.name = src
    IN  {g \in dir : g.name \notin {src, dst}} \cup {[name |-> dst, content |-> f.content]}

\* A faulty variant of move_final_guess_xyz: the copy is not renamed.
move_final_guess_xyz_copy_only(dir, ts_file, content, reaction_name) ==
    copy(dir, <<ts_file>>, content)

\* shutil.copy into final_ts_guesses, then os.rename to
\* <reaction_name>_final_ts_guess.xyz.
move_final_guess_xyz(dir, ts_file, content, reaction_name) ==
    rename(copy(dir, <<ts_file>>, content),
           <<ts_file>>, <<reaction_name, "_final_ts_guess.xyz">>)

\* --freq-cut-off of the search script, the value of the specification's scenario.
freq_cut_off_default == 150

Frequencies == {-300, -150, -100}

ValidateArgs ==
    {[ts_file |-> "ts_guess_0.xyz", reaction_name |-> "reaction_R1",
      reactant_edges |-> re, product_edges |-> pe, delta_mode |-> dm,
      cut_off |-> co, freq |-> fr, freq_cut_off |-> freq_cut_off_default,
      ts_distances |-> td, reac_distances |-> [b \in Bonds |-> 1],
      prod_distances |-> [b \in Bonds |-> 1], factor |-> k, final |-> fi] :
        re \in SUBSET Bonds, pe \in SUBSET Bonds, dm \in [Bonds -> Displacements],
        co \in {0, 1}, fr \in Frequencies, td \in DistanceMatrices,
        k \in {100, 105}, fi \in BOOLEAN}

InitValidate ==
    /\ call = "validate_ts_guess"
    /\ args \in ValidateArgs
    /\ returned = FALSE
    /\ ret = FALSE
    /\ final_ts_guesses = {}
    /\ IdleIrc /\ IdleBatch /\ IdleSearch /\ IdleValid

ValidateTsGuess ==
    /\ call = "validate_ts_guess"
    /\ ~returned
    /\ ret' = validate_ts_guess(args)
    /\ returned' = TRUE
    /\ final_ts_guesses' =
          IF validate_ts_guess(args) /\ args.final
            THEN move_final_guess_xyz(final_ts_guesses, args.ts_file,
                                      args.ts_distances, args.reaction_name)
            ELSE final_ts_guesses
    /\ UNCHANGED <<call, args>>
    /\ UNCHANGED <<ircVars, batchVars, searchVars, validVars>>

SpecValidate == InitValidate /\ [][ValidateTsGuess]_vars

\* C1: validate_ts_guess returns True iff the extra-bonds mapping is empty, the
\* active-bonds mapping is non-empty, the displacements of the involved forming
\* bonds and those of the involved breaking bonds pass the same-sign rule, the
\* intermediacy check passes and frequency < -freq_cut_off.
C1_AcceptIff ==
    (call = "validate_ts_guess" /\ returned) =>
        LET info == extract_info_ts_file(args)
        IN  ret <=>
              /\ DOMAIN info.extra_bonds_involved_in_mode = {}
              /\ DOMAIN info.active_bonds_involved_in_mode # {}
              /\ SameSignRule(active_formed_bonds_involved_in_mode(info))
              /\ SameSignRule(active_broken_bonds_involved_in_mode(info))
              /\ \A b \in info.active_bonds_forming :
                     info.ts_distances[b] * 100 >= args.factor * info.prod_distances[b]
              /\ \A b \in info.active_bonds_breaking :
                     info.ts_distances[b] * 100 >= args.factor * info.reac_distances[b]
              /\ info.freq < - args.freq_cut_off

\* ========================================================================
\* irc_search.py : update_molecular_graphs, compare_molecules_irc
\* ========================================================================

\* for rel_tolerance in [0.3, 0.25, 0.20, 0.15, 0.10], in hundredths.
Tolerances == <<30, 25, 20, 15, 10>>

\* A molecule gives, for each pair of atoms that may be bonded, by how much
\* (in hundredths) the distance of the pair exceeds its ideal bond length.
Stretches == {5, 12, 22, 35}

Molecules == [Bonds -> Stretches]

\* autode's make_graph: the pair is an edge when its distance is within the
\* relative tolerance of the ideal bond length.
make_graph(mol, rel_tolerance) == {b \in Bonds : mol[b] <= rel_tolerance}

\* update_molecular_graphs: all four graphs rebuilt at rel_tolerance.
update_molecular_graphs(rel_tolerance, forward_mol, reverse_mol, reactant_mol, product_mol) ==
    [forward  |-> make_graph(forward_mol, rel_tolerance),
     reverse  |-> make_graph(reverse_mol, rel_tolerance),
     reactant |-> make_graph(reactant_mol, rel_tolerance),
     product  |-> make_graph(product_mol, rel_tolerance)]

\* A faulty variant of irc_match: the second orientation (the elif) is missing.
irc_match_first_only(g) ==
    g.forward = g.reactant /\ g.reverse = g.product

\* The if / elif of lines 185-188.
irc_match(g) ==
    IF g.forward = g.reactant /\ g.reverse = g.product
      THEN TRUE
      ELSE IF g.forward = g.product /\ g.reverse = g.reactant
             THEN TRUE
             ELSE FALSE

InitIrc ==
    /\ call = "compare_molecules_irc"
    /\ args \in {[forward_mol |-> f, reverse_mol |-> r, reactant_mol |-> a,
                  product_mol |-> p] :
                    f \in Molecules, r \in Molecules, a \in Molecules, p \in Molecules}
    /\ returned = FALSE
    /\ ret = FALSE
    /\ final_ts_guesses = {}
    /\ irc_pc = "loop"
    /\ irc_idx = 1
    /\ evaluated = <<>>
    /\ graphs = <<>>
    /\ irc_ret = FALSE
    /\ IdleBatch /\ IdleSearch /\ IdleValid

\* One iteration of the for loop.
IrcIteration ==
    /\ irc_pc = "loop"
    /\ irc_idx <= Len(Tolerances)
    /\ LET rel_tolerance == Tolerances[irc_idx]
           g == update_molecular_graphs(rel_tolerance, args.forward_mol,
                    args.reverse_mol, args.reactant_mol, args.product_mol)
       IN  /\ evaluated' = Append(evaluated, rel_tolerance)
           /\ graphs' = Append(graphs, g)
           /\ IF irc_match(g)
                THEN /\ irc_pc' = "done"
                     /\ irc_ret' = TRUE
                     /\ UNCHANGED irc_idx
                ELSE /\ irc_idx' = irc_idx + 1
                     /\ UNCHANGED <<irc_pc, irc_ret>>
    /\ UNCHANGED <<engineVars, batchVars, searchVars, validVars>>

\* The loop is exhausted: return False.
IrcReturnFalse ==
    /\ irc_pc = "loop"
    /\ irc_idx > Len(Tolerances)
    /\ irc_pc' = "done"
    /\ irc_ret' = FALSE
    /\ UNCHANGED <<irc_idx, evaluated, graphs>>
    /\ UNCHANGED <<engineVars, batchVars, searchVars, validVars>>

NextIrc == IrcIteration \/ IrcReturnFalse

SpecIrc == InitIrc /\ [][NextIrc]_vars

\* Whether, with the graphs built at tolerance t, either orientation matches
\* under exact edge-set equality.
MatchesAt(t) ==
    LET edges(mol) == {b \in Bonds : mol[b] <= t}
    IN  \/ /\ edges(args.forward_mol) = edges(args.reactant_mol)
           /\ edges(args.reverse_mol) = edges(args.product_mol)
        \/ /\ edges(args.forward_mol) = edges(args.product_mol)
           /\ edges(args.reverse_mol) = edges(args.reactant_mol)

\* C9: the tolerances are evaluated in the order 0.30, 0.25, 0.20, 0.15, 0.10,
\* all four graphs rebuilt at each; True is returned at the first tolerance
\* where either orientation matches, no later tolerance being evaluated; False
\* is returned iff no tolerance of the sequence matches.
C9_IrcSweep ==
    /\ Len(evaluated) <= Len(Tolerances)
    /\ Len(graphs) = Len(evaluated)
    /\ \A k \in 1..Len(evaluated) :
          /\ evaluated[k] = Tolerances[k]
          /\ graphs[k].forward  = {b \in Bonds : args.forward_mol[b] <= Tolerances[k]}
          /\ graphs[k].reverse  = {b \in Bonds : args.reverse_mol[b] <= Tolerances[k]}
          /\ graphs[k].reactant = {b \in Bonds : args.reactant_mol[b] <= Tolerances[k]}
          /\ graphs[k].product  = {b \in Bonds : args.product_mol[b] <= Tolerances[k]}
          /\ (k < Len(evaluated)) => ~ MatchesAt(Tolerances[k])
    /\ (irc_pc = "done" /\ irc_ret) =>
          /\ Len(evaluated) >= 1
          /\ MatchesAt(evaluated[Len(evaluated)])
    /\ (irc_pc = "done") =>
          (irc_ret = FALSE <=>
              \A k \in 1..Len(Tolerances) : ~ MatchesAt(Tolerances[k]))

\* C9 witness: True returned at the third tolerance (0.20), in the swapped
\* orientation only, the two larger tolerances having failed.
C9_Witness ==
    /\ irc_pc = "done" /\ irc_ret
    /\ evaluated = <<30, 25, 20>>
    /\ graphs[3].forward = graphs[3].product
    /\ graphs[3].reverse = graphs[3].reactant
    /\ graphs[3].forward # graphs[3].reactant

\* ========================================================================
\* run_ts_searcher_dft.py : optimize_individual_ts, obtain_transition_states
\* ========================================================================

\* The reactions of the batch, by identifier (rxn_idx), in submission order.
reaction_list == <<"A", "B", "C">>

Reactions == 1..Len(reaction_list)

rxn_id(r) == reaction_list[r]

\* --reactive-complex_factors-intra and --reactive-complex-factors-inter, in
\* hundredths.
reactive_complex_factor_values_intra == <<120, 130, 180>>
reactive_complex_factor_values_inter == <<250, 180, 280, 130>>

\* for _ in range(3)
Retries == 3

\* A faulty variant of select_factor_values: the two lists are swapped.
select_factor_values_swapped(is_intramolecular) ==
    IF is_intramolecular
      THEN reactive_complex_factor_values_inter
      ELSE reactive_complex_factor_values_intra

\* Lines 49-52: the list of factors for the classification.
select_factor_values(is_intramolecular) ==
    IF is_intramolecular
      THEN reactive_complex_factor_values_intra
      ELSE reactive_complex_factor_values_inter

factor_values(r) == select_factor_values(kind[r] = "intra")

\* The factor of attempt number n + 1 (n attempts made so far): the outer loop
\* runs over the factors, the inner loop Retries times.
current_factor(values, n) == values[(n \div Retries) + 1]

total_attempts(values) == Retries * Len(values)

\* A faulty variant of after_attempt: an accepted guess does not end the search.
after_attempt_no_return(id, outcome, n, values) ==
    IF n = total_attempts(values)
      THEN [pc |-> "done", ret |-> "None"]
      ELSE [pc |-> "running", ret |-> "unset"]

\* Lines 57-72, after attempt number n ended with `outcome': an exception is
\* caught (continue), an accepted guess returns the reaction identifier, and
\* the end of both loops returns None.
after_attempt(id, outcome, n, values) ==
    IF outcome = "accept"
      THEN [pc |-> "done", ret |-> id]
      ELSE IF n = total_attempts(values)
             THEN [pc |-> "done", ret |-> "None"]
             ELSE [pc |-> "running", ret |-> "unset"]

\* A faulty variant of successful: nothing is filtered out.
successful_unfiltered(rs) == rs

\* [r for r in results if r is not None]
RECURSIVE successful(_)
successful(rs) ==
    IF rs = <<>> THEN <<>>
    ELSE IF Head(rs) # "None"
           THEN <<Head(rs)>> \o successful(Tail(rs))
           ELSE successful(Tail(rs))

\* A faulty variant of collected_results: the outcomes in the order in which
\* the calls returned.
collected_results_as_completed ==
    [i \in 1..Len(completed) |-> wret[completed[i]]]

\* list(executor.map(f, ts_optimizer_list)): map yields the result of the call
\* on the i-th element in i-th place, whenever that call returned.
collected_results == [r \in Reactions |-> wret[r]]

\* Number of worker processes busy with a reaction.
busy == Cardinality({r \in Reactions : wpc[r] = "running"})

\* A faulty variant of can_start: a reaction a worker is busy with can be
\* handed to another worker.
can_start_taken(r, max_workers) ==
    /\ orch = "mapping"
    /\ wpc[r] \in {"pending", "running"}
    /\ busy < max_workers

\* The pool hands out the reactions in submission order to free workers.
can_start(r, max_workers) ==
    /\ orch = "mapping"
    /\ wpc[r] = "pending"
    /\ \A q \in Reactions : q < r => wpc[q] # "pending"
    /\ busy < max_workers

InitSearch ==
    /\ IdleEngine /\ IdleIrc /\ IdleValid
    /\ orch = "start"
    /\ cwd = "home"
    /\ cpu_count \in 1..MaxCpu
    /\ wpc = [r \in Reactions |-> "unsubmitted"]
    /\ wret = [r \in Reactions |-> "unset"]
    /\ started = [r \in Reactions |-> 0]
    /\ completed = <<>>
    /\ results = <<>>
    /\ out = <<>>
    /\ kind = [r \in Reactions |-> "unknown"]
    /\ tried = [r \in Reactions |-> <<>>]
    /\ last = [r \in Reactions |-> "none"]

\* obtain_transition_states, lines 95-111: chdir to the target directory,
\* one TSOptimizer per reaction, the pool and the submission of every reaction.
SearchSetup ==
    /\ orch = "start"
    /\ cwd' = "target"
    /\ \/ /\ orch' = "mapping"
          /\ wpc' = [r \in Reactions |-> "pending"]
       \/ /\ orch' = "raised_in_setup"      \* a TSOptimizer constructor raises
          /\ UNCHANGED wpc
    /\ UNCHANGED <<cpu_count, wret, started, completed, results, out>>
    /\ UNCHANGED <<engineVars, ircVars, searchVars, validVars>>

\* optimize_individual_ts, lines 47-52: a worker takes the reaction and
\* classifies it; reaction_is_intramolecular is called outside any try.
Classify(r) ==
    /\ can_start(r, cpu_count)
    /\ \E c \in {"intra", "inter", "raise"} :
          IF c = "raise"
            THEN /\ wpc' = [wpc EXCEPT ![r] = "raised"]
                 /\ UNCHANGED kind
            ELSE /\ wpc' = [wpc EXCEPT ![r] = "running"]
                 /\ kind' = [kind EXCEPT ![r] = c]
    /\ started' = [started EXCEPT ![r] = @ + 1]
    /\ UNCHANGED completed
    /\ UNCHANGED <<orch, cwd, cpu_count, wret, results, out, tried, last>>
    /\ UNCHANGED <<engineVars, ircVars, validVars>>

\* optimize_individual_ts, lines 55-72: one pass of the inner loop.  The
\* attempt is accepted (determine_ts returns True), rejected, or raises (in
\* set_ts_guess_list or determine_ts).  remove_files_in_directory, the clean-up
\* of the working directory between the verdict and its test, does not raise.
Attempt(r) ==
    /\ orch \in {"mapping", "draining"}
    /\ wpc[r] = "running"
    /\ \E outcome \in {"accept", "reject", "raise"} :
          LET values == factor_values(r)
              n == Len(tried[r]) + 1
              after == after_attempt(rxn_id(r), outcome, n, values)
          IN  /\ tried' = [tried EXCEPT ![r] = Append(@, current_factor(values, n - 1))]
              /\ last' = [last EXCEPT ![r] = outcome]
              /\ wpc' = [wpc EXCEPT ![r] = after.pc]
              /\ wret' = [wret EXCEPT ![r] = after.ret]
    /\ completed' = IF wpc'[r] = "done" THEN Append(completed, r) ELSE completed
    /\ UNCHANGED <<orch, cwd, cpu_count, started, results, out, kind>>
    /\ UNCHANGED <<engineVars, ircVars, validVars>>

\* obtain_transition_states, lines 111-118: every call returned, so list(map)
\* gives the results in submission order; the filter, chdir back and return.
SearchCollect ==
    /\ orch = "mapping"
    /\ \A r \in Reactions : wpc[r] = "done"
    /\ results' = collected_results
    /\ out' = successful(collected_results)
    /\ cwd' = "home"
    /\ orch' = "returned"
    /\ UNCHANGED <<cpu_count, wpc, wret, started, completed>>
    /\ UNCHANGED <<engineVars, ircVars, searchVars, validVars>>

\* list(executor.map(...)) re-raises the exception of the first call, in
\* submission order, that raised; the calls not yet started are cancelled and
\* the pool waits for the running ones.
SearchMapRaises ==
    /\ orch = "mapping"
    /\ \E r \in Reactions :
          /\ wpc[r] = "raised"
          /\ \A q \in Reactions : q < r => wpc[q] = "done"
    /\ orch' = "draining"
    /\ wpc' = [r \in Reactions |-> IF wpc[r] = "pending" THEN "cancelled" ELSE wpc[r]]
    /\ UNCHANGED <<cwd, cpu_count, wret, started, completed, results, out>>
    /\ UNCHANGED <<engineVars, ircVars, searchVars, validVars>>

\* The pool has shut down: the exception leaves obtain_transition_states
\* (lines 113-118 are not run).
SearchRaises ==
    /\ orch = "draining"
    /\ \A r \in Reactions : wpc[r] # "running"
    /\ orch' = "raised"
    /\ UNCHANGED <<cwd, cpu_count, wpc, wret, started, completed, results, out>>
    /\ UNCHANGED <<engineVars, ircVars, searchVars, validVars>>

NextSearch ==
    \/ SearchSetup
    \/ \E r \in Reactions : Classify(r)
    \/ \E r \in Reactions : Attempt(r)
    \/ SearchCollect
    \/ SearchMapRaises
    \/ SearchRaises

SpecSearch == InitSearch /\ [][NextSearch]_vars

ExpectedAttempts(values) ==
    [k \in 1..(Retries * Len(values)) |-> values[((k - 1) \div Retries) + 1]]

IsPrefix(p, q) ==
    /\ Len(p) <= Len(q)
    /\ \A k \in 1..Len(p) : p[k] = q[k]

\* C4: the factors are tried in the order of the selected list (intramolecular
\* or intermolecular), each at most 3 times; a rejected or raising attempt is
\* followed by the next attempt; after 3 x |factors| attempts without
\* acceptance the function has ended and returned None.
C4_OrderedBoundedRetries ==
    \A r \in Reactions :
        LET selected == IF kind[r] = "intra"
                          THEN reactive_complex_factor_values_intra
                          ELSE reactive_complex_factor_values_inter
        IN  /\ (kind[r] = "unknown") => (tried[r] = <<>>)
            /\ (kind[r] # "unknown") =>
                  /\ IsPrefix(tried[r], ExpectedAttempts(selected))
                  /\ \A f \in {selected[k] : k \in 1..Len(selected)} :
                        Cardinality({k \in 1..Len(tried[r]) : tried[r][k] = f}) <= 3
                  /\ (last[r] \in {"reject", "raise"} /\ Len(tried[r]) < 3 * Len(selected))
                        => (wpc[r] = "running" /\ ENABLED Attempt(r))
                  /\ (last[r] # "accept" /\ Len(tried[r]) = 3 * Len(selected))
                        => (wpc[r] = "done" /\ wret[r] = "None")
                  /\ (wret[r] = "None")
                        => (last[r] # "accept" /\ Len(tried[r]) = 3 * Len(selected))

\* C4 witness: an intermolecular reaction whose twelve attempts all failed, the
\* last one by an exception, has returned None; and another reaction is in the
\* middle of its list after a raising attempt.
C4_Witness ==
    /\ \E r \in Reactions :
          /\ kind[r] = "inter"
          /\ tried[r] = <<250, 250, 250, 180, 180, 180, 280, 280, 280, 130, 130, 130>>
          /\ last[r] = "raise"
          /\ wpc[r] = "done" /\ wret[r] = "None"
    /\ \E r \in Reactions :
          /\ kind[r] = "intra"
          /\ tried[r] = <<120, 120, 120, 130>>
          /\ last[r] = "raise"
          /\ wpc[r] = "running"

\* C5: no exception propagates out of a reaction's processing, whichever step
\* raises (classification, guess generation, determine_ts): the reaction is
\* reported as failed and obtain_transition_states completes with the outcomes
\* of all other reactions.
C5_NoExceptionEscapes ==
    /\ \A r \in Reactions : wpc[r] # "raised"
    /\ orch \notin {"draining", "raised"}

FileNames == {"ts_guess_0.xyz", "ts_guess_0.log", "reactants_geometry.xyz",
              "products_geometry.xyz"}

\* 'ts_guess' in file and file.endswith('.xyz')
is_ts_guess_xyz(file) == file = "ts_guess_0.xyz"

Listings == UNION {[1..n -> FileNames] : n \in 0..MaxFiles}

\* The for loop of lines 47-53 from position i on.  The shutil.copy of
\* position fail_at raises (os.listdir itself when fail_at = 0).  The result is
\* the local ts_guess_file and whether an exception left the loop.
RECURSIVE discovery_loop(_, _, _, _)
discovery_loop(files, i, found, fail_at) ==
    IF fail_at = 0 THEN [ts_guess_file |-> found, raised |-> TRUE]
    ELSE IF i > Len(files) THEN [ts_guess_file |-> found, raised |-> FALSE]
    ELSE IF is_ts_guess_xyz(files[i])
           THEN discovery_loop(files, i + 1, files[i], fail_at)
    ELSE IF files[i] \in {"reactants_geometry.xyz", "products_geometry.xyz"}
           THEN IF fail_at = i
                  THEN [ts_guess_file |-> found, raised |-> TRUE]
                  ELSE discovery_loop(files, i + 1, found, fail_at)
    ELSE discovery_loop(files, i + 1, found, fail_at)

\* Lines 46-55: the loop inside try / except Exception.
file_discovery(files, fail_at) ==
    LET d == discovery_loop(files, 1, "None", fail_at)
    IN  [ts_guess_file |-> d.ts_guess_file,
         discovery |-> IF d.raised THEN "raise" ELSE "ok",
         propagates |-> FALSE]

\* A faulty variant of guarded_determine_ts: the exception is not caught.
guarded_determine_ts_uncaught(outcome) ==
    [ts_validated |-> (outcome = "accept"), propagates |-> (outcome = "raise")]

\* Lines 59-63: determine_ts inside try / except Exception; ts_validated keeps
\* its initial False when determine_ts raises.
guarded_determine_ts(outcome) ==
    [ts_validated |-> (outcome = "accept"), propagates |-> FALSE]

\* A faulty variant of validation_result: the identifier whatever happened.
validation_result_always_id(id, validated) == id

\* Lines 65-72: the reaction identifier if validated, False otherwise.
validation_result(id, validated) ==
    IF validated THEN id ELSE "False"

\* [r for r in results if r is not None]
validated_reactions(rs) == successful(rs)

\* max_workers=int(num_processes/2)
validation_workers == cpu_count \div 2

InitValidation ==
    /\ IdleEngine /\ IdleIrc
    /\ orch = "start"
    /\ cwd = "home"
    /\ cpu_count \in 1..MaxCpu
    /\ wpc = [r \in Reactions |-> "unsubmitted"]
    /\ wret = [r \in Reactions |-> "unset"]
    /\ started = [r \in Reactions |-> 0]
    /\ completed = <<>>
    /\ results = <<>>
    /\ out = <<>>
    /\ kind = [r \in Reactions |-> "unknown"]
    /\ tried = [r \in Reactions |-> <<>>]
    /\ last = [r \in Reactions |-> "none"]
    /\ discovery = [r \in Reactions |-> "unset"]
    /\ ts_guess_file = [r \in Reactions |-> "None"]
    /\ ts_validated = [r \in Reactions |-> FALSE]
    /\ calls = [r \in Reactions |-> 0]

\* validate_ts_guesses, lines 88-107: chdir to the output directory, one
\* TSOptimizer per reaction, chdir back, then the pool, whose constructor
\* raises ValueError when max_workers is 0, and the submission.
ValidationSetup ==
    /\ orch = "start"
    /\ \/ /\ validation_workers > 0
          /\ orch' = "mapping"
          /\ wpc' = [r \in Reactions |-> "pending"]
          /\ UNCHANGED cwd
       \/ /\ validation_workers = 0
          /\ orch' = "raised_no_workers"
          /\ UNCHANGED <<wpc, cwd>>
       \/ /\ orch' = "raised_in_setup"      \* a TSOptimizer constructor raises
          /\ cwd' = "output"
          /\ UNCHANGED wpc
    /\ UNCHANGED <<cpu_count, wret, started, completed, results, out>>
    /\ UNCHANGED <<engineVars, ircVars, searchVars, validVars>>

\* validate_individual_ts, lines 39-55: a worker takes the reaction and looks
\* for the candidate file in its guess directory.
Discover(r) ==
    /\ can_start(r, validation_workers)
    /\ \E files \in Listings : \E fail_at \in 0..(Len(files) + 1) :
          LET d == file_discovery(files, fail_at)
          IN  /\ discovery' = [discovery EXCEPT ![r] = d.discovery]
              /\ ts_guess_file' = [ts_guess_file EXCEPT ![r] = d.ts_guess_file]
              /\ wpc' = [wpc EXCEPT ![r] = IF d.propagates THEN "raised" ELSE "running"]
    /\ started' = [started EXCEPT ![r] = @ + 1]
    /\ UNCHANGED completed
    /\ UNCHANGED <<orch, cwd, cpu_count, wret, results, out>>
    /\ UNCHANGED <<ts_validated, calls>>
    /\ UNCHANGED <<engineVars, ircVars, searchVars>>

\* validate_individual_ts, lines 57-72: determine_ts on the candidate file if
\* one was found, and the return.
Validate(r) ==
    /\ orch = "mapping"
    /\ wpc[r] = "running"
    /\ \/ /\ ts_guess_file[r] # "None"
          /\ \E outcome \in {"accept", "reject", "raise"} :
                LET g == guarded_determine_ts(outcome)
                IN  /\ calls' = [calls EXCEPT ![r] = @ + 1]
                    /\ last' = [last EXCEPT ![r] = outcome]
                    /\ ts_validated' = [ts_validated EXCEPT ![r] = g.ts_validated]
                    /\ IF g.propagates
                         THEN /\ wpc' = [wpc EXCEPT ![r] = "raised"]
                              /\ UNCHANGED wret
                         ELSE /\ wpc' = [wpc EXCEPT ![r] = "done"]
                              /\ wret' = [wret EXCEPT ![r] =
                                            validation_result(rxn_id(r), g.ts_validated)]
       \/ /\ ts_guess_file[r] = "None"
          /\ wpc' = [wpc EXCEPT ![r] = "done"]
          /\ wret' = [wret EXCEPT ![r] = validation_result(rxn_id(r), ts_validated[r])]
          /\ UNCHANGED <<calls, last, ts_validated>>
    /\ completed' = IF wpc'[r] = "done" THEN Append(completed, r) ELSE completed
    /\ UNCHANGED <<orch, cwd, cpu_count, started, results, out>>
    /\ UNCHANGED <<kind, tried, discovery, ts_guess_file>>
    /\ UNCHANGED <<engineVars, ircVars>>

\* validate_ts_guesses, lines 107-113: every call returned; the results in
\* submission order, the filter, chdir and return.
ValidationCollect ==
    /\ orch = "mapping"
    /\ \A r \in Reactions : wpc[r] = "done"
    /\ results' = collected_results
    /\ out' = validated_reactions(collected_results)
    /\ cwd' = "home"
    /\ orch' = "returned"
    /\ UNCHANGED <<cpu_count, wpc, wret, started, completed>>
    /\ UNCHANGED <<engineVars, ircVars, searchVars, validVars>>

NextValidation ==
    \/ ValidationSetup
    \/ \E r \in Reactions : Discover(r)
    \/ \E r \in Reactions : Validate(r)
    \/ ValidationCollect

SpecValidation == InitValidation /\ [][NextValidation]_vars

\* C7: every entry of the collection validate_ts_guesses returns is the
\* identifier of a reaction whose validation was accepted; a reaction whose
\* outcome is a failure contributes no entry.
C7_OnlyValidatedIdentifiers ==
    (orch = "returned") =>
        /\ \A i \in 1..Len(out) :
              \E r \in Reactions : out[i] = rxn_id(r) /\ ts_validated[r]
        /\ Len(out) = Cardinality({r \in Reactions : ts_validated[r]})

ChainBonds == {<<0, 1>>, <<1, 2>>, <<2, 3>>}

reversed(bond) == <<bond[2], bond[1]>>

\* set(mol.graph.edges): every bond of the graph once, as a tuple (i, j).  The
\* order of the two indices in the tuple is the graph library's; nothing in
\* extract_info_ts_file normalises it.
EdgeSets ==
    {E \in SUBSET (ChainBonds \cup {reversed(b) : b \in ChainBonds}) :
        \A b \in E : reversed(b) \notin E}

all_bonds(reactant_edges, product_edges) == product_edges \cup reactant_edges

forming(reactant_edges, product_edges) == product_edges \ reactant_edges

breaking(reactant_edges, product_edges) == reactant_edges \ product_edges

InitBonds ==
    /\ call = "active_bonds"
    /\ args \in [reactant_edges : EdgeSets, product_edges : EdgeSets]
    /\ returned = FALSE
    /\ ret = FALSE
    /\ final_ts_guesses = {}
    /\ IdleIrc /\ IdleBatch /\ IdleSearch /\ IdleValid

\* Lines 245-250.
ActiveBonds ==
    /\ call = "active_bonds"
    /\ ~returned
    /\ ret' = [all_bonds |-> all_bonds(args.reactant_edges, args.product_edges),
               active_bonds_forming |->
                   forming(args.reactant_edges, args.product_edges),
               active_bonds_breaking |->
                   breaking(args.reactant_edges, args.product_edges)]
    /\ returned' = TRUE
    /\ UNCHANGED <<call, args, final_ts_guesses>>
    /\ UNCHANGED <<ircVars, batchVars, searchVars, validVars>>

SpecBonds == InitBonds /\ [][ActiveBonds]_vars

\* The bond of a tuple as an unordered pair of atom indices.
Unordered(bond) == {bond[1], bond[2]}

C12_ExactlyOnceThenJoin ==
    /\ \A r \in Reactions : started[r] <= 1
    /\ (results # <<>>) =>
          /\ Len(results) = Len(reaction_list)
          /\ \A r \in Reactions :
                /\ started[r] = 1
                /\ wpc[r] = "done"
                /\ results[r] = wret[r]
                /\ wret[r] # "unset"

\* C12 witness: with two worker processes the second reaction completed
\* before the first (which needed more attempts), the third after both, and
\* the result list has been built.
C12_Witness ==
    /\ orch = "returned"
    /\ cpu_count = 2
    /\ Len(results) = 3
    /\ Len(tried[1]) > Len(tried[2])
    /\ \A r \in Reactions : started[r] = 1 /\ wpc[r] = "done"

\* ========================================================================
\* confirm_imag_modes.py : move_final_guess_xyz run by several workers
\* ========================================================================

\* The workers that reached line 68, one per reaction, each in the working
\* directory of its own reaction (reaction_name, line 187).
Writers == 1..3

writer_reaction_name(w) == <<"reaction_R", w>>

\* ts_guess_file.split('/')[-1]: the guess files of every reaction are numbered
\* from 0 inside the reaction's own directory.
TsGuessNames == {"ts_guess_0.xyz", "ts_guess_1.xyz"}

exists(dir, name) == \E f \in dir : f.name = name

final_name(reaction_name) == <<reaction_name, "_final_ts_guess.xyz">>

InitWriters ==
    /\ call = "move_final_guess_xyz"
    /\ args \in [Writers -> [ts_guess_file : TsGuessNames]]
    /\ returned = FALSE
    /\ ret = FALSE
    /\ final_ts_guesses = {}
    /\ IdleIrc /\ IdleSearch /\ IdleValid
    /\ orch = "idle"
    /\ cwd = "home"
    /\ cpu_count = 1
    /\ wpc = [w \in Writers |-> "copy"]
    /\ wret = <<>>
    /\ started = <<>>
    /\ completed = <<>>
    /\ results = <<>>
    /\ out = <<>>

\* Line 188: shutil.copy(ts_guess_file, <path_name>/final_ts_guesses); the
\* content copied is the geometry of the writer's own reaction.
CopyStep(w) ==
    /\ call = "move_final_guess_xyz"
    /\ wpc[w] = "copy"
    /\ final_ts_guesses' = copy(final_ts_guesses, <<args[w].ts_guess_file>>,
                                writer_reaction_name(w))
    /\ wpc' = [wpc EXCEPT ![w] = "rename"]
    /\ UNCHANGED <<call, args, returned, ret>>
    /\ UNCHANGED <<orch, cwd, cpu_count, wret, started, completed, results, out>>
    /\ UNCHANGED <<ircVars, searchVars, validVars>>

\* Lines 189-192: os.rename of the copied file to
\* <reaction_name>_final_ts_guess.xyz; FileNotFoundError when the source is
\* not there any more.
RenameStep(w) ==
    /\ call = "move_final_guess_xyz"
    /\ wpc[w] = "rename"
    /\ IF exists(final_ts_guesses, <<args[w].ts_guess_file>>)
         THEN /\ final_ts_guesses' =
                    rename(final_ts_guesses, <<args[w].ts_guess_file>>,
                           final_name(writer_reaction_name(w)))
              /\ wpc' = [wpc EXCEPT ![w] = "done"]
         ELSE /\ wpc' = [wpc EXCEPT ![w] = "raised"]
              /\ UNCHANGED final_ts_guesses
    /\ UNCHANGED <<call, args, returned, ret>>
    /\ UNCHANGED <<orch, cwd, cpu_count, wret, started, completed, results, out>>
    /\ UNCHANGED <<ircVars, searchVars, validVars>>

NextWriters == \E w \in Writers : CopyStep(w) \/ RenameStep(w)

SpecWriters == InitWriters /\ [][NextWriters]_vars

\* C13: for every interleaving of the copy and rename steps of workers of
\* different reactions, every writer's rename succeeds and the file
\* <reaction>_final_ts_guess.xyz of every reaction holds the geometry of that
\* reaction.
C13_ConcurrentWritersSafe ==
    (call = "move_final_guess_xyz") =>
        \A w \in Writers :
            /\ wpc[w] # "raised"
            /\ \A f \in final_ts_guesses :
                   (f.name = final_name(writer_reaction_name(w))) =>
                       (f.content = writer_reaction_name(w))

\* ========================================================================
\* confirm_imag_modes.py : validate_ts_guess called twice for one reaction
\* ========================================================================

\* What final_ts_guesses may hold before the call: nothing, or the final guess
\* of another reaction.
SharedAreas ==
    {{}, {[name |-> <<"reaction_R2", "_final_ts_guess.xyz">>, content |-> "reaction_R2"]}}

InitRepeat ==
    /\ call = "validate_ts_guess, first call"
    /\ args \in ValidateArgs
    /\ returned = FALSE
    /\ ret = FALSE
    /\ final_ts_guesses \in SharedAreas
    /\ IdleIrc /\ IdleBatch /\ IdleSearch /\ IdleValid

\* validate_ts_guess, lines 42-71, on the same ts_file, path and parameters
\* each time.
RepeatCall(this, next) ==
    /\ call = this
    /\ call' = next
    /\ ret' = validate_ts_guess(args)
    /\ returned' = TRUE
    /\ final_ts_guesses' =
          IF validate_ts_guess(args) /\ args.final
            THEN move_final_guess_xyz(final_ts_guesses, args.ts_file,
                                      args.ts_distances, args.reaction_name)
            ELSE final_ts_guesses
    /\ UNCHANGED args
    /\ UNCHANGED <<ircVars, batchVars, searchVars, validVars>>

FirstCall == RepeatCall("validate_ts_guess, first call", "validate_ts_guess, second call")

SecondCall == RepeatCall("validate_ts_guess, second call", "validate_ts_guess, done")

NextRepeat == FirstCall \/ SecondCall

SpecRepeat == InitRepeat /\ [][NextRepeat]_vars

\* C14: a call of validate_ts_guess changes final_ts_guesses only when it
\* returns True with final = True, and then the area holds, besides the files
\* of other reactions, exactly one file of this reaction, named
\* <reaction>_final_ts_guess.xyz and holding the guess; a second call with the
\* same accepted guess returns the same verdict and leaves the area as the
\* first call left it.
C14_WriteOnlyWhenAcceptedFinalIdempotent ==
    [][LET F == <<args.reaction_name, "_final_ts_guess.xyz">>
       IN  /\ ~(ret' /\ args.final) => (final_ts_guesses' = final_ts_guesses)
           /\ (ret' /\ args.final) =>
                 (final_ts_guesses' =
                     {f \in final_ts_guesses : f.name # F}
                        \cup {[name |-> F, content |-> args.ts_distances]})
           /\ returned => (ret' = ret /\ final_ts_guesses' = final_ts_guesses)]_vars

\* C14 witness: the guess was accepted with final = True, the call was made
\* twice, and the shared area holds the file of the other reaction and one
\* file of this reaction.
C14_Witness ==
    /\ call = "validate_ts_guess, done"
    /\ ret /\ args.final
    /\ Cardinality(final_ts_guesses) = 2
    /\ \E f \in final_ts_guesses :
          f.name = <<args.reaction_name, "_final_ts_guess.xyz">>

\* ========================================================================
\* confirm_imag_modes.py : the inputs of extract_info_ts_file, lines 224-230
\* ========================================================================

\* What the call finds on disk: whether the two conformer files are in the
\* current directory and in `path', whether path/g98.out exists, whether it
\* has a 'Frequencies' line, the number of rows parsed below it, and the
\* atom count of the geometries.
InputFiles ==
    [reactant_in_cwd : BOOLEAN, product_in_cwd : BOOLEAN,
     reactant_in_path : BOOLEAN, product_in_path : BOOLEAN,
     g98_in_path : BOOLEAN, frequencies_line : BOOLEAN,
     mode_rows : 0..MaxAtoms, n_atoms : 3..MaxAtoms]

\* Lines 428-431: the two list comprehensions run over os.listdir(), the
\* current directory; [0] on an empty list raises IndexError.
get_xyzs(files) ==
    IF files.reactant_in_cwd /\ files.product_in_cwd THEN "ok" ELSE "raise"

\* Lines 409-411: ade.Molecule on path/<file> raises when the file is absent.
get_ade_molecules(files) ==
    IF files.reactant_in_path /\ files.product_in_path THEN "ok" ELSE "raise"

\* Lines 307-336: open() raises when g98.out is absent; without a
\* 'Frequencies' line `frequency' is unbound at the return.  Nothing compares
\* the number of rows read with an atom count.
read_first_normal_mode(files) ==
    IF files.g98_in_path /\ files.frequencies_line THEN "ok" ELSE "raise"

\* Line 368: coords.copy() + disp_factor * normal_mode, an (n, 3) array plus an
\* (m, 3) array (an empty one has shape (0,)); the sum broadcasts when m = n or
\* m = 1 and raises ValueError otherwise.
broadcast_sum(n_atoms, mode_rows) ==
    IF mode_rows = n_atoms \/ mode_rows = 1 THEN "ok" ELSE "raise"

\* Lines 224-230 in order.
load_inputs(files) ==
    IF get_xyzs(files) = "raise" THEN "raise"
    ELSE IF get_ade_molecules(files) = "raise" THEN "raise"
    ELSE IF read_first_normal_mode(files) = "raise" THEN "raise"
    ELSE broadcast_sum(files.n_atoms, files.mode_rows)

\* The guesses the verdict is computed on once the inputs are loaded.
LoadedGuesses ==
    {a \in ValidateArgs :
        /\ a.reactant_edges = {<<0, 1>>}
        /\ a.cut_off = 1 /\ a.factor = 100 /\ ~a.final
        /\ \A b \in Bonds : a.delta_mode[b] = MaxDisp /\ a.ts_distances[b] = 1}

InitInputs ==
    /\ call = "validate_ts_guess, loading"
    /\ args \in [files : InputFiles, guess : LoadedGuesses]
    /\ returned = FALSE
    /\ ret = FALSE
    /\ final_ts_guesses = {}
    /\ IdleIrc /\ IdleBatch /\ IdleSearch /\ IdleValid

\* validate_ts_guess on these files: the exception of lines 224-230 leaves
\* the call, which has no try; otherwise the verdict is returned.
ValidateFromFiles ==
    /\ call = "validate_ts_guess, loading"
    /\ IF load_inputs(args.files) = "raise"
         THEN /\ call' = "validate_ts_guess, raised"
              /\ UNCHANGED <<returned, ret>>
         ELSE /\ call' = "validate_ts_guess, returned"
              /\ returned' = TRUE
              /\ ret' = validate_ts_guess(args.guess)
    /\ UNCHANGED <<args, final_ts_guesses>>
    /\ UNCHANGED <<ircVars, batchVars, searchVars, validVars>>

SpecInputs == InitInputs /\ [][ValidateFromFiles]_vars

\* C15: validate_ts_guess returns a verdict only if the reactant and product
\* geometry files are in `path', the vibrational output has its frequency
\* marker, and the mode vector has as many rows as the geometry has atoms;
\* otherwise the call raises.
C15_NoVerdictFromBadInputs ==
    returned =>
        /\ args.files.reactant_in_path /\ args.files.product_in_path
        /\ args.files.frequencies_line
        /\ args.files.mode_rows = args.files.n_atoms

\* ========================================================================
\* confirm_imag_modes.py : determine_unactivated_bonds
\* ========================================================================

\* A faulty variant of unactivated_loop: <= where the code has <.
RECURSIVE unactivated_loop_le(_, _, _, _)
unactivated_loop_le(bonds, ts_distances, target_distances, factor) ==
    IF bonds = {} THEN <<>>
    ELSE LET active_bond == CHOOSE b \in bonds : TRUE
             rest == unactivated_loop_le(bonds \ {active_bond}, ts_distances,
                                         target_distances, factor)
         IN  IF ts_distances[active_bond] * 100 <= target_distances[active_bond] * factor
               THEN <<active_bond>> \o rest
               ELSE rest

\* One of the two for loops (lines 104-106, 108-110): the bonds of `bonds'
\* whose TS distance is below target distance * factor, appended in turn.
RECURSIVE unactivated_loop(_, _, _, _)
unactivated_loop(bonds, ts_distances, target_distances, factor) ==
    IF bonds = {} THEN <<>>
    ELSE LET active_bond == CHOOSE b \in bonds : TRUE
             rest == unactivated_loop(bonds \ {active_bond}, ts_distances,
                                      target_distances, factor)
         IN  IF ts_distances[active_bond] * 100 < target_distances[active_bond] * factor
               THEN <<active_bond>> \o rest
               ELSE rest

\* A faulty variant of determine_unactivated_bonds: the breaking bonds are
\* not looked at.
determine_unactivated_bonds_forming_only(ts_distances, reac_distances, prod_distances, active_bonds_forming, active_bonds_breaking, factor) ==
    unactivated_loop(active_bonds_forming, ts_distances, prod_distances, factor)

\* Lines 102-112; the arguments are what extract_info_ts_file returned.
determine_unactivated_bonds(ts_distances, reac_distances, prod_distances, active_bonds_forming, active_bonds_breaking, factor) ==
    unactivated_loop(active_bonds_forming, ts_distances, prod_distances, factor)
        \o unactivated_loop(active_bonds_breaking, ts_distances, reac_distances, factor)

InitUnactivated ==
    /\ call = "determine_unactivated_bonds"
    /\ args \in {[ts_distances |-> t, reac_distances |-> r, prod_distances |-> p,
                  active_bonds_forming |-> f, active_bonds_breaking |-> b,
                  factor |-> k] :
                    t \in DistanceMatrices, r \in DistanceMatrices,
                    p \in DistanceMatrices,
                    f \in SUBSET Bonds, b \in SUBSET Bonds, k \in Factors}
    /\ args.active_bonds_forming \cap args.active_bonds_breaking = {}
    /\ returned = FALSE
    /\ ret = <<>>
    /\ final_ts_guesses \in SharedAreas
    /\ IdleIrc /\ IdleBatch /\ IdleSearch /\ IdleValid

DetermineUnactivatedBonds ==
    /\ call = "determine_unactivated_bonds"
    /\ ~returned
    /\ ret' = determine_unactivated_bonds(
                  args.ts_distances, args.reac_distances, args.prod_distances,
                  args.active_bonds_forming, args.active_bonds_breaking, args.factor)
    /\ returned' = TRUE
    /\ UNCHANGED <<call, args, final_ts_guesses>>
    /\ UNCHANGED <<ircVars, batchVars, searchVars, validVars>>

SpecUnactivated == InitUnactivated /\ [][DetermineUnactivatedBonds]_vars

\* The bonds of the returned list.
Reported == {ret[i] : i \in 1..Len(ret)}

\* The target distance of a forming or breaking bond.
target_distance(b) ==
    IF b \in args.active_bonds_forming THEN args.prod_distances[b]
                                       ELSE args.reac_distances[b]

\* C16 as stated: a bond counts as activated when its TS distance is
\* < factor x its target distance, and the list returned holds exactly the
\* forming/breaking bonds that are not activated.
C16_ReportsNotBelowThreshold ==
    (call = "determine_unactivated_bonds" /\ returned) =>
        \A b \in args.active_bonds_forming \cup args.active_bonds_breaking :
            (b \in Reported) <=>
                ~ (args.ts_distances[b] * 100 < args.factor * target_distance(b))

\* C16 as amended: the list returned holds, once each, exactly the
\* forming/breaking bonds whose TS distance is < factor x their target
\* distance (the bonds the code calls unactivated; a bond at or above the
\* threshold is activated and is not reported), and the call leaves the shared
\* area as it was.
C16_ReportsBelowThreshold ==
    [][(call = "determine_unactivated_bonds" /\ returned') =>
          /\ \A b \in args.active_bonds_forming \cup args.active_bonds_breaking :
                (b \in Reported') <=>
                    (args.ts_distances[b] * 100 < args.factor * target_distance(b))
          /\ Reported' \subseteq args.active_bonds_forming \cup args.active_bonds_breaking
          /\ Len(ret') = Cardinality(Reported')
          /\ final_ts_guesses' = final_ts_guesses]_vars

\* C16 witness: the call has returned a list with a forming bond in it, and a
\* breaking bond at or above its threshold is not in the list.
C16_Witness ==
    /\ call = "determine_unactivated_bonds" /\ returned
    /\ \E f \in args.active_bonds_forming : f \in Reported
    /\ \E b \in args.active_bonds_breaking :
          /\ b \notin Reported
          /\ args.ts_distances[b] * 100 >= args.factor * args.reac_distances[b]
    /\ final_ts_guesses # {}

\* ========================================================================
\* confirm_imag_modes.py : extract_info_ts_file, lines 244-270
\*                         (bonds involved in the mode)
\* ========================================================================

\* The edge sets of graphs over the atoms 0, 1, 2.
SmallEdgeSets == {E \in EdgeSets : \A b \in E : Unordered(b) \subseteq {0, 1, 2}}

\* delta_mode is a matrix indexed [i, j]; being a difference of distance
\* matrices it is symmetric.
DeltaModes ==
    {dm \in [Bonds \cup {reversed(b) : b \in Bonds} -> Displacements] :
        \A b \in Bonds : dm[reversed(b)] = dm[b]}

InitClassify ==
    /\ call = "extract_info_ts_file"
    /\ args \in [reactant_edges : SmallEdgeSets, product_edges : SmallEdgeSets,
                 delta_mode : DeltaModes, cut_off : {0, 1}, freq : {-300},
                 reac_distances : {[b \in Bonds |-> 1]},
                 prod_distances : {[b \in Bonds |-> 1]},
                 ts_distances : {[b \in Bonds |-> 1]}]
    /\ returned = FALSE
    /\ ret = FALSE
    /\ final_ts_guesses = {}
    /\ IdleIrc /\ IdleBatch /\ IdleSearch /\ IdleValid

\* Lines 244-270.
ExtractInfo ==
    /\ call = "extract_info_ts_file"
    /\ ~returned
    /\ ret' = extract_info_ts_file(args)
    /\ returned' = TRUE
    /\ UNCHANGED <<call, args, final_ts_guesses>>
    /\ UNCHANGED <<ircVars, batchVars, searchVars, validVars>>

SpecClassify == InitClassify /\ [][ExtractInfo]_vars

\* C17: of the bonds of edges(reactant) U edges(product), a bond of
\* forming U breaking is a key of the active-involved mapping iff
\* |delta| >= 2 x cutoff, any other bond is a key of the extra-involved mapping
\* iff |delta| >= cutoff; the two key sets are disjoint, the active keys are
\* forming or breaking bonds, the extra keys are bonds of both graphs, and
\* every value is the signed delta of its bond.
C17_BondClassification ==
    (call = "extract_info_ts_file" /\ returned) =>
        LET active == DOMAIN ret.active_bonds_involved_in_mode
            extra  == DOMAIN ret.extra_bonds_involved_in_mode
            changing == (args.product_edges \ args.reactant_edges)
                           \cup (args.reactant_edges \ args.product_edges)
        IN  /\ \A b \in args.reactant_edges \cup args.product_edges :
                   IF b \in changing
                     THEN (b \in active) <=> (Abs(args.delta_mode[b]) >= 2 * args.cut_off)
                     ELSE (b \in extra) <=> (Abs(args.delta_mode[b]) >= args.cut_off)
            /\ active \cap extra = {}
            /\ active \subseteq changing
            /\ extra \subseteq args.reactant_edges \cap args.product_edges
            /\ \A b \in active : ret.active_bonds_involved_in_mode[b] = args.delta_mode[b]
            /\ \A b \in extra : ret.extra_bonds_involved_in_mode[b] = args.delta_mode[b]

\* C17 witness: with cutoff 1, a breaking bond displaced by 1 is left out of
\* the active mapping while a bond of both graphs displaced by -1 is recorded
\* in the extra mapping with its sign.
C17_Witness ==
    /\ call = "extract_info_ts_file" /\ returned
    /\ args.cut_off = 1
    /\ \E b \in ret.active_bonds_breaking :
          /\ Abs(args.delta_mode[b]) = 1
          /\ b \notin DOMAIN ret.active_bonds_involved_in_mode
    /\ \E b \in DOMAIN ret.extra_bonds_involved_in_mode :
          ret.extra_bonds_involved_in_mode[b] = -1

\* ========================================================================
\* confirm_imag_modes.py : extract_info_ts_file, lines 229-242 (delta_mode)
\* ========================================================================

\* Geometries are modelled on a line: one integer coordinate per atom, and a
\* mode vector with one integer component per atom.
Atoms == 0..2

Coordinates == [Atoms -> 0..MaxCoord]

NormalModes == [Atoms -> -1..1]

\* scipy's distance_matrix(coords, coords).
distance_matrix(coords) == [b \in Atoms \X Atoms |-> Abs(coords[b[1]] - coords[b[2]])]

\* Lines 367-392: the displaced coordinates.  No displacement in the model
\* comes near max_atom_disp = 99.9, so the loop of lines 373-381 breaks at once.
displaced_species_along_mode(coordinates, normal_mode, disp_factor) ==
    [i \in Atoms |-> coordinates[i] + disp_factor * normal_mode[i]]

\* Lines 229-242.  The forward species is displaced from ts_mol, the backward
\* one from reactant.
delta_mode(ts_mol, reactant, normal_mode) ==
    LET f_displaced_species == displaced_species_along_mode(ts_mol, normal_mode, 1)
        b_displaced_species == displaced_species_along_mode(reactant, normal_mode, -1)
        f_distances == distance_matrix(f_displaced_species)
        b_distances == distance_matrix(b_displaced_species)
    IN  [b \in Atoms \X Atoms |-> f_distances[b] - b_distances[b]]

InitDelta ==
    /\ call = "delta_mode"
    /\ args \in [ts_mol : Coordinates, reactant : Coordinates,
                 product : {[i \in Atoms |-> i], [i \in Atoms |-> 0]},
                 normal_mode : NormalModes]
    /\ returned = FALSE
    /\ ret = FALSE
    /\ final_ts_guesses = {}
    /\ IdleIrc /\ IdleBatch /\ IdleSearch /\ IdleValid

ComputeDeltaMode ==
    /\ call = "delta_mode"
    /\ ~returned
    /\ ret' = delta_mode(args.ts_mol, args.reactant, args.normal_mode)
    /\ returned' = TRUE
    /\ UNCHANGED <<call, args, final_ts_guesses>>
    /\ UNCHANGED <<ircVars, batchVars, searchVars, validVars>>

SpecDelta == InitDelta /\ [][ComputeDeltaMode]_vars

\* C18: delta_mode is the difference between the distance matrices of the
\* candidate TS geometry displaced by +1 and by -1 along the mode vector, so
\* it is fixed by the TS geometry and the mode vector alone and is zero for
\* every bond when the mode vector is zero.
C18_DeltaOfTsGeometry ==
    (call = "delta_mode" /\ returned) =>
        /\ \A b \in Atoms \X Atoms :
              ret[b] =
                 Abs((args.ts_mol[b[1]] + args.normal_mode[b[1]])
                        - (args.ts_mol[b[2]] + args.normal_mode[b[2]]))
                 - Abs((args.ts_mol[b[1]] - args.normal_mode[b[1]])
                        - (args.ts_mol[b[2]] - args.normal_mode[b[2]]))
        /\ (\A i \in Atoms : args.normal_mode[i] = 0) =>
              (\A b \in Atoms \X Atoms : ret[b] = 0)

\* ========================================================================
\* check_if_bond_lengths_intermediate at several factors
\* ========================================================================

\* The check on the geometries and bond sets of the call, at another factor.
intermediate_at(factor) ==
    check_if_bond_lengths_intermediate(
        args.ts_distances, args.reac_distances, args.prod_distances,
        args.active_bonds_forming, args.active_bonds_breaking, factor)

\* C19: at fixed geometries and bond sets the intermediacy check is monotonic
\* in factor: a check that passes at a factor passes at every smaller factor,
\* and a check that fails at a factor fails at every larger one.
C19_MonotonicInFactor ==
    (call = "check_if_bond_lengths_intermediate" /\ returned) =>
        /\ ret = intermediate_at(args.factor)
        /\ \A f1 \in Factors, f2 \in Factors :
              (f1 <= f2 /\ intermediate_at(f2)) => intermediate_at(f1)
        /\ ret => \A f1 \in Factors : (f1 <= args.factor) => intermediate_at(f1)
        /\ ~ret => \A f2 \in Factors : (f2 >= args.factor) => ~ intermediate_at(f2)

\* C19 witness: the check has passed at factor 1.00 for a forming and a
\* breaking bond, and the same geometries fail it at factors 1.05 and 2.00.
C19_Witness ==
    /\ call = "check_if_bond_lengths_intermediate" /\ returned
    /\ ret /\ args.factor = 100
    /\ args.active_bonds_forming # {} /\ args.active_bonds_breaking # {}
    /\ ~ intermediate_at(105)
    /\ ~ intermediate_at(200)

\* ========================================================================
\* dft_validation.py : validate_individual_ts, invocations of determine_ts
\* ========================================================================

\* C20: validate_individual_ts calls determine_ts at most once for a reaction
\* and never again after its verdict or its exception; when the call has
\* ended, determine_ts was called exactly once if a candidate file was found
\* in the guess directory (and that file is a ts_guess .xyz file) and not at
\* all if none was found or discovery failed before finding one, in which
\* case the reaction is reported as a failure.
C20_OneInvocationPerReaction ==
    \A r \in Reactions :
        /\ calls[r] <= 1
        /\ (calls[r] = 1) => (wpc[r] \in {"done", "raised"})
        /\ (wpc[r] = "done") =>
              /\ (ts_guess_file[r] # "None") =>
                    (calls[r] = 1 /\ is_ts_guess_xyz(ts_guess_file[r]))
              /\ (ts_guess_file[r] = "None") =>
                    (calls[r] = 0 /\ last[r] = "none" /\ wret[r] = "False")

\* C20 witness: in one batch the guess directory of the first reaction held
\* no candidate, the discovery of the second raised before finding one, the
\* candidate of the third was rejected by its single determine_ts call, and
\* the orchestrator has returned.
C20_Witness ==
    /\ orch = "returned"
    /\ discovery[1] = "ok" /\ ts_guess_file[1] = "None" /\ calls[1] = 0
    /\ discovery[2] = "raise" /\ ts_guess_file[2] = "None" /\ calls[2] = 0
    /\ ts_guess_file[3] # "None" /\ last[3] = "reject" /\ calls[3] = 1
    /\ \A r \in Reactions : wret[r] = "False"

\* ========================================================================
\* The order of the list collected from the pool
\* ========================================================================

\* C21 as stated: the list the orchestrator collects from the pool holds the
\* outcomes in completion order, so the outcome of a reaction that completed
\* before another precedes it in the list.
C21_CompletionOrder ==
    (results # <<>>) =>
        \A i \in 1..Len(results) : results[i] = wret[completed[i]]

\* C21 as amended: the list the orchestrator collects from the pool holds the
\* outcomes in submission order whatever the completion order: the i-th entry
\* is the outcome of the i-th submitted reaction, also when a reaction
\* submitted later completed before it.
C21_SubmissionOrder ==
    (results # <<>>) =>
        /\ Len(completed) = Len(reaction_list)
        /\ \A r \in Reactions : \E i \in 1..Len(completed) : completed[i] = r
        /\ \A r \in Reactions : results[r] = wret[r]

\* C21 witness: the second reaction completed first, unsuccessfully, the
\* first reaction completed after it with an accepted guess, and the collected
\* list starts with the first reaction's identifier.
C21_Witness ==
    /\ orch = "returned"
    /\ completed[1] = 2 /\ completed[2] = 1
    /\ wret[1] = rxn_id(1) /\ wret[2] # rxn_id(2)
    /\ results[1] = rxn_id(1)
    /\ results[2] = wret[2]

\* ========================================================================
\* determine_unactivated_bonds against check_if_bond_lengths_intermediate
\* ========================================================================

\* The intermediacy check on the arguments of the call, with the forming and
\* breaking sets cut down to `bonds'.
intermediate_on(bonds) ==
    check_if_bond_lengths_intermediate(
        args.ts_distances, args.reac_distances, args.prod_distances,
        args.active_bonds_forming \cap bonds, args.active_bonds_breaking \cap bonds,
        args.factor)

\* C22: on the same distances, forming/breaking sets and factor,
\* check_if_bond_lengths_intermediate returns True iff
\* determine_unactivated_bonds returns the empty list, and a bond is in the
\* list iff it is one that, alone, makes the intermediacy check fail.
C22_FinderAgreesWithCheck ==
    (call = "determine_unactivated_bonds" /\ returned) =>
        /\ (ret = <<>>) <=>
              intermediate_on(args.active_bonds_forming \cup args.active_bonds_breaking)
        /\ \A b \in args.active_bonds_forming \cup args.active_bonds_breaking :
              (b \in Reported) <=> ~ intermediate_on({b})

\* C22 witness: with one forming and one breaking bond the finder has
\* returned exactly one of them, a bond sitting exactly on its threshold is
\* not reported, and the intermediacy check fails on the same arguments.
C22_Witness ==
    /\ call = "determine_unactivated_bonds" /\ returned
    /\ Cardinality(args.active_bonds_forming) = 1
    /\ Cardinality(args.active_bonds_breaking) = 1
    /\ Len(ret) = 1
    /\ \E b \in args.active_bonds_forming \cup args.active_bonds_breaking :
          /\ b \notin Reported
          /\ args.ts_distances[b] * 100 = args.factor * target_distance(b)
    /\ ~ intermediate_on(args.active_bonds_forming \cup args.active_bonds_breaking)

\* ========================================================================
\* dft_validation.py : the size of the pool of validate_ts_guesses
\* ========================================================================

\* C23: the pool size int(cpu_count / 2) is at least 1 for every host with
\* cpu_count >= 1, so once the reaction tasks are constructed
\* validate_ts_guesses creates its pool and goes on to process the batch.
C23_PoolSizeAtLeastOne ==
    (orch \notin {"start", "raised_in_setup"}) =>
        /\ cpu_count >= 1 => validation_workers >= 1
        /\ orch # "raised_no_workers"

\* ========================================================================
\* The working directory of the process on the exit paths of the orchestrators
\* ========================================================================

\* C24: on every exit path of the orchestrator, a return or an exception
\* raised while constructing a reaction task or running the pool, the working
\* directory of the process is the one at entry.
C24_WorkingDirectoryRestored ==
    (orch \in {"returned", "raised", "raised_in_setup", "raised_no_workers"}) =>
        (cwd = "home")

=============================================================================
